---- MODULE Spec2Model ----
(***************************************************************************)
(* The markdown command extractor of src/command.rs: Commands::parse walks *)
(* the lines of a markdown text, recognises fenced shell blocks and builds *)
(* the list of commands, narrowed by execute_from / execute_until and      *)
(* filtered by skip_commands.                                              *)
(*                                                                         *)
(* A line of text is a sequence of one-character strings, so that find,    *)
(* slicing, trim and the other str operations the parser uses are computed *)
(* character by character.  An Option is a sequence of length 0 (None) or  *)
(* 1 (Some).                                                               *)
(***************************************************************************)
EXTENDS Integers, Sequences, FiniteSets, TLC

(***************************************************************************)
(* Bounds of the model.                                                    *)
(***************************************************************************)
\* the most lines after the opening fence of a text of Spec
MaxBody == 3
\* the most lines of a text of SpecRange
MaxLines == 4
\* the deepest indentation, in columns, of a block of a text of SpecIndent
MaxIndent == 2
\* the most blocks of a text of SpecIndent
MaxBlocks == 2
\* the most lines after the opening fence of a text of SpecSkip
MaxSkipBody == 3
\* the most lines of a block of a text of SpecBlocks
MaxPairBody == 2
\* the most commands of a script of SpecInteractive
MaxFunctions == 3
\* the most lines between the fences of a text of SpecMain
MaxCommands == 3
\* the most files one run of main processes in SpecMain
MaxFiles == 2

(***************************************************************************)
(* Option                                                                  *)
(***************************************************************************)
None == << >>
Some(x) == << x >>

(***************************************************************************)
(* The str operations used by the parser.                                  *)
(***************************************************************************)
\* s[from..] with a 0-based byte offset
SliceFrom(s, offset) == SubSeq(s, offset + 1, Len(s))

\* pat occurs in s at the 0-based offset i
MatchesAt(s, pat, i) ==
    /\ i + Len(pat) <= Len(s)
    /\ \A k \in 1..Len(pat) : s[i + k] = pat[k]

\* str::starts_with
StartsWith(s, pat) == MatchesAt(s, pat, 0)

\* str::ends_with
EndsWith(s, pat) == Len(s) >= Len(pat) /\ MatchesAt(s, pat, Len(s) - Len(pat))

\* str::contains
Contains(s, pat) == \E i \in 0..Len(s) : MatchesAt(s, pat, i)

\* str::find: the offset of the first occurrence
Find(s, pat) ==
    IF Contains(s, pat)
    THEN Some(CHOOSE i \in 0..Len(s) :
                /\ MatchesAt(s, pat, i)
                /\ \A j \in 0..(i - 1) : ~MatchesAt(s, pat, j))
    ELSE None

WhiteSpace == {" ", "\t"}

RECURSIVE TrimStart(_)
TrimStart(s) ==
    IF s # << >> /\ Head(s) \in WhiteSpace THEN TrimStart(Tail(s)) ELSE s

RECURSIVE TrimEnd(_)
TrimEnd(s) ==
    IF s # << >> /\ s[Len(s)] \in WhiteSpace
    THEN TrimEnd(SubSeq(s, 1, Len(s) - 1))
    ELSE s

\* str::trim
Trim(s) == TrimEnd(TrimStart(s))

UpperCase ==
    << "A", "B", "C", "D", "E", "F", "G", "H", "I", "J", "K", "L", "M",
       "N", "O", "P", "Q", "R", "S", "T", "U", "V", "W", "X", "Y", "Z" >>
LowerCase ==
    << "a", "b", "c", "d", "e", "f", "g", "h", "i", "j", "k", "l", "m",
       "n", "o", "p", "q", "r", "s", "t", "u", "v", "w", "x", "y", "z" >>

\* u8::to_ascii_lowercase
ToAsciiLowercase(c) ==
    IF \E i \in 1..26 : UpperCase[i] = c
    THEN LowerCase[CHOOSE i \in 1..26 : UpperCase[i] = c]
    ELSE c

\* str::eq_ignore_ascii_case
EqIgnoreAsciiCase(a, b) ==
    /\ Len(a) = Len(b)
    /\ \A k \in 1..Len(a) : ToAsciiLowercase(a[k]) = ToAsciiLowercase(b[k])

\* str::splitn(2, pat): the text before and after the first occurrence
Splitn2(s, pat) ==
    LET at == Find(s, pat)
    IN  IF at = None
        THEN << s >>
        ELSE << SubSeq(s, 1, at[1]), SliceFrom(s, at[1] + Len(pat)) >>

\* chars().take_while(|c| c != ' ')
RECURSIVE TakeWhileNotSpace(_)
TakeWhileNotSpace(s) ==
    IF s = << >> \/ Head(s) = " "
    THEN << >>
    ELSE << Head(s) >> \o TakeWhileNotSpace(Tail(s))

\* (mutant) the texts are joined with nothing between them
RECURSIVE JoinNoSeparator(_, _)
JoinNoSeparator(strs, sep) ==
    IF strs = << >> THEN << >>
    ELSE strs[1] \o JoinNoSeparator(Tail(strs), sep)

\* [&str]::join(sep)
RECURSIVE Join(_, _)
Join(strs, sep) ==
    IF strs = << >> THEN << >>
    ELSE IF Len(strs) = 1 THEN strs[1]
    ELSE strs[1] \o sep \o Join(Tail(strs), sep)

\* Regex::is_match for a regex that is a literal text: it matches anywhere
IsMatch(regex, text) == Contains(text, regex)

(***************************************************************************)
(* The tokens of the parser.                                               *)
(***************************************************************************)
\* the grave accent U+0060, which a TLA+ string cannot hold
Tick == "tick"
OpenFence == << Tick, Tick, Tick, "s", "h", "e", "l", "l" >>
CloseFence == << Tick, Tick, Tick >>
Prompt == << "$", " " >>
HereDocument == << "<", "<" >>
Continuation == << "\\" >>

(***************************************************************************)
(* The state of one call of Commands::parse: the options it is given, the  *)
(* position of the line iterator, and its local variables.                 *)
(***************************************************************************)
VARIABLES
    content,                     \* Options.content, as its lines()
    execute_from,                \* Options.execute_from
    execute_until,               \* Options.execute_until
    skip_commands,               \* Options.skip_commands
    line_no,                     \* the lines the iterator has yielded
    commands,
    buffer_command,
    within_command_block,
    within_here_document_block,
    execute_from_found,
    execute_until_found,
    pc,                          \* "loop" while scanning, "done" once returned
    result,                      \* None, or Some(the Result parse returned)
    execution_mode,              \* Options.execution_mode
    script,                      \* None, or Some(the text as_shell_script returned)
    files,                       \* the files main has still to process
    script_file,                 \* the temporary script file, on the disk
    child,                       \* the /bin/sh subprocess
    statuses,                    \* the exit statuses of the subprocesses so far
    exit_code,                   \* None, or Some(the exit status of the process)
    EXECUTE_ALL,                 \* the variable of the script: None while not set
    calls,                       \* the calls of the functions of the script so far
    script_status                \* None, or Some(the exit status of the script)

\* the state of main and of the world around it
mainVars == << execution_mode, script, files, script_file, child, statuses, exit_code >>

\* the state of the shell that runs an interactive script
shVars == << EXECUTE_ALL, calls, script_status >>

vars ==
    << content, execute_from, execute_until, skip_commands, line_no, commands,
       buffer_command, within_command_block, within_here_document_block,
       execute_from_found, execute_until_found, pc, result, execution_mode,
       script, files, script_file, child, statuses, exit_code,
       EXECUTE_ALL, calls, script_status >>

\* the options of the call
Options ==
    [ execute_from |-> execute_from,
      execute_until |-> execute_until,
      skip_commands |-> skip_commands ]

\* the local variables of parse
Locals ==
    [ commands |-> commands,
      buffer_command |-> buffer_command,
      within_command_block |-> within_command_block,
      within_here_document_block |-> within_here_document_block,
      execute_from_found |-> execute_from_found,
      execute_until_found |-> execute_until_found ]

\* the local variables as parse declares them
InitialLocals ==
    [ commands |-> << >>,
      buffer_command |-> << >>,
      within_command_block |-> None,
      within_here_document_block |-> None,
      execute_from_found |-> FALSE,
      execute_until_found |-> FALSE ]

(***************************************************************************)
(* The body of the loop over the lines.                                    *)
(***************************************************************************)
\* (mutant) any fence opens a shell block
OpenFenceOffsetAnyFence(line) == Find(line, CloseFence)

\* line.find("```shell")
OpenFenceOffset(line) == Find(line, OpenFence)

\* (mutant) a close fence at any column closes the block
IsCloseFenceAnyColumn(block, line) ==
    /\ block # None
    /\ Trim(line) = CloseFence

\* the line closes the block opened at the offset of block
IsCloseFence(block, line) ==
    /\ block # None
    /\ Len(line) > block[1]
    /\ SliceFrom(line, block[1]) = CloseFence

\* execute_from_found after the line was compared with the from marker
FromFound(found, line, opts) ==
    IF opts.execute_from # None
       /\ ~found
       /\ EqIgnoreAsciiCase(Trim(line), opts.execute_from[1])
    THEN TRUE
    ELSE found

\* the line is before the execute_from line: it is passed over
BeforeFrom(found, line, opts) ==
    opts.execute_from # None /\ ~FromFound(found, line, opts)

\* (mutant) the indentation of the fence is not removed
FromOffsetWholeLine(line, offset) == line

\* the line from the offset of the fence
FromOffset(line, offset) ==
    IF Len(line) > offset THEN SliceFrom(line, offset) ELSE << >>

\* (mutant) the prompt is taken to be one character long
StripPromptOneChar(command_line) ==
    IF StartsWith(command_line, Prompt)
    THEN SliceFrom(command_line, 1)
    ELSE command_line

\* a line without its command prompt
StripPrompt(command_line) ==
    IF StartsWith(command_line, Prompt)
    THEN SliceFrom(command_line, 2)
    ELSE command_line

\* command_line: the line of a block from the offset of its fence, less the prompt
CommandLine(line, offset) == StripPrompt(FromOffset(line, offset))

\* the delimiter of the here-document a command line opens
HereDocumentDelimiter(command_line) ==
    TakeWhileNotSpace(Trim(Splitn2(command_line, HereDocument)[2]))

\* A line held by a command: a &str that borrows from the content.  no is the
\* line of the content it lies in, text the characters it spans.
Slice(no, command_line) == [no |-> no, text |-> command_line]

\* the texts of the lines of a command
TextOf(lines) == [i \in 1..Len(lines) |-> lines[i].text]

\* the command line of a block, in here-document mode
HereDocumentLine(st, no, command_line) ==
    LET buffer == Append(st.buffer_command, Slice(no, command_line))
    IN  IF command_line = st.within_here_document_block[1]
        THEN [st EXCEPT !.commands = Append(st.commands, buffer),
                        !.buffer_command = << >>,
                        !.within_here_document_block = None]
        ELSE [st EXCEPT !.buffer_command = buffer]

\* the command line opens a here-document
OpensHereDocument(command_line) == Contains(command_line, HereDocument)

\* (mutant) a trailing backslash does not continue the command
IsContinuedNever(command_line) == FALSE

\* the command goes on with the next line
IsContinued(command_line) == EndsWith(command_line, Continuation)

\* the command is discarded by skip_commands
IsSkipped(buffer, opts) ==
    /\ opts.skip_commands # None
    /\ IsMatch(opts.skip_commands[1], Join(TextOf(buffer), << " " >>))

\* (mutant) a command that is skipped is still compared with the until marker
BlockLineSkipThenUntil(st, no, command_line, opts) ==
    LET buffer == Append(st.buffer_command, Slice(no, command_line))
    IN  IF st.within_here_document_block # None
        THEN [st |-> HereDocumentLine(st, no, command_line), cont |-> TRUE]
        ELSE IF OpensHereDocument(command_line)
        THEN [st |-> [st EXCEPT !.within_here_document_block =
                                    Some(HereDocumentDelimiter(command_line)),
                                !.buffer_command = buffer],
              cont |-> TRUE]
        ELSE IF IsContinued(command_line)
        THEN [st |-> [st EXCEPT !.buffer_command = buffer], cont |-> TRUE]
        ELSE IF IsSkipped(buffer, opts)
        THEN [st |-> [st EXCEPT !.buffer_command = << >>], cont |-> FALSE]
        ELSE [st |-> [st EXCEPT !.commands = Append(st.commands, buffer),
                                !.buffer_command = << >>],
              cont |-> FALSE]

\* The command line of a block.  cont: the loop continues with the next line
\* without comparing this one with the until marker.
BlockLine(st, no, command_line, opts) ==
    LET buffer == Append(st.buffer_command, Slice(no, command_line))
    IN  IF st.within_here_document_block # None
        THEN [st |-> HereDocumentLine(st, no, command_line), cont |-> TRUE]
        ELSE IF OpensHereDocument(command_line)
        THEN [st |-> [st EXCEPT !.within_here_document_block =
                                    Some(HereDocumentDelimiter(command_line)),
                                !.buffer_command = buffer],
              cont |-> TRUE]
        ELSE IF IsContinued(command_line)
        THEN [st |-> [st EXCEPT !.buffer_command = buffer], cont |-> TRUE]
        ELSE IF IsSkipped(buffer, opts)
        THEN [st |-> [st EXCEPT !.buffer_command = << >>], cont |-> TRUE]
        ELSE [st |-> [st EXCEPT !.commands = Append(st.commands, buffer),
                                !.buffer_command = << >>],
              cont |-> FALSE]

\* (mutant) the line is compared with the until marker case by case
UntilMatchesCaseSensitive(line, opts) ==
    /\ opts.execute_until # None
    /\ Trim(line) = opts.execute_until[1]

\* the line equals the until marker
UntilMatches(line, opts) ==
    /\ opts.execute_until # None
    /\ EqIgnoreAsciiCase(Trim(line), opts.execute_until[1])

\* One iteration of the loop, on the line number no of the content.  The loop
\* breaks when it sets execute_until_found.
LoopBody(st, no, line, opts) ==
    IF OpenFenceOffset(line) # None
    THEN [st EXCEPT !.within_command_block = OpenFenceOffset(line)]
    ELSE IF IsCloseFence(st.within_command_block, line)
    THEN [st EXCEPT !.within_command_block = None]
    ELSE IF BeforeFrom(st.execute_from_found, line, opts)
    THEN st
    ELSE
        LET s1 == [st EXCEPT !.execute_from_found =
                                 FromFound(st.execute_from_found, line, opts)]
            b  == IF s1.within_command_block # None
                  THEN BlockLine(s1, no,
                                 CommandLine(line, s1.within_command_block[1]),
                                 opts)
                  ELSE [st |-> s1, cont |-> FALSE]
        IN  IF b.cont
            THEN b.st
            ELSE IF UntilMatches(line, opts)
            THEN [b.st EXCEPT !.execute_until_found = TRUE]
            ELSE b.st

(***************************************************************************)
(* What parse returns after the loop.                                      *)
(***************************************************************************)
Ok(cmds) == [tag |-> "Ok", commands |-> cmds]
Err(msg) == [tag |-> "Err", message |-> msg]

FromNotFound(from_line) ==
    Err(<< "No line matched the execute from: '", from_line, "'" >>)

UntilNotFound(until_line) ==
    Err(<< "No line matched the execute until: '", until_line, "'" >>)

\* (mutant) the error does not tell the from marker
UntilNotFoundAfterFromUntilOnly(until_line, from_line) ==
    Err(<< "No line matched the execute until: '", until_line, "'" >>)

UntilNotFoundAfterFrom(until_line, from_line) ==
    Err(<< "No line matched the execute until: '", until_line,
           "' after the execute from: '", from_line, "'" >>)

\* (mutant) the until marker is looked at before the from marker
ReturnUntilFirst(st, opts) ==
    IF opts.execute_until # None /\ ~st.execute_until_found
    THEN IF opts.execute_from # None
         THEN UntilNotFoundAfterFrom(opts.execute_until[1], opts.execute_from[1])
         ELSE UntilNotFound(opts.execute_until[1])
    ELSE IF opts.execute_from # None /\ ~st.execute_from_found
    THEN FromNotFound(opts.execute_from[1])
    ELSE Ok(st.commands)

\* (mutant) a marker that is not found gives the commands collected so far
ReturnCommandsSoFar(st, opts) ==
    Ok(st.commands)

Return(st, opts) ==
    IF opts.execute_from # None /\ ~st.execute_from_found
    THEN FromNotFound(opts.execute_from[1])
    ELSE IF opts.execute_until # None /\ ~st.execute_until_found
    THEN IF opts.execute_from # None
         THEN UntilNotFoundAfterFrom(opts.execute_until[1], opts.execute_from[1])
         ELSE UntilNotFound(opts.execute_until[1])
    ELSE Ok(st.commands)

\* the local variables after the loop, run from line number no of the lines on
\* with the local variables st
RECURSIVE Scan(_, _, _, _)
Scan(st, lines, no, opts) ==
    IF no > Len(lines) \/ st.execute_until_found
    THEN st
    ELSE Scan(LoopBody(st, no, lines[no], opts), lines, no + 1, opts)

\* Commands::parse as a function of its options
Parse(lines, opts) == Return(Scan(InitialLocals, lines, 1, opts), opts)

\* PartialEq of Result<Commands, ParserError>: commands are equal by their text
TextOfCommands(cmds) == [i \in 1..Len(cmds) |-> TextOf(cmds[i])]
TextOfResult(r) ==
    IF r.tag = "Ok" THEN Ok(TextOfCommands(r.commands)) ELSE r

(***************************************************************************)
(* Commands::as_shell_script.  A text is a sequence whose elements are the  *)
(* characters of the command lines, the line feed, and the pieces of fixed  *)
(* text of the code, each piece one element.                                *)
(***************************************************************************)
Default == [tag |-> "Default"]
DelayBetweenCommands(delay_in_millis) ==
    [tag |-> "DelayBetweenCommands", delay_in_millis |-> delay_in_millis]
Interactive == [tag |-> "Interactive"]

NL == "\n"

\* the decimal digits of a u32, as Display writes them
Digits == << "0", "1", "2", "3", "4", "5", "6", "7", "8", "9" >>
RECURSIVE Decimal(_)
Decimal(n) ==
    IF n < 10 THEN << Digits[n + 1] >>
    ELSE Decimal(n \div 10) \o << Digits[(n % 10) + 1] >>

\* Display for Command: the lines, with a line feed between them
RECURSIVE CommandToString(_)
CommandToString(lines) ==
    IF lines = << >> THEN << >>
    ELSE IF Len(lines) = 1 THEN lines[1].text
    ELSE CommandToString(SubSeq(lines, 1, Len(lines) - 1)) \o << NL >> \o
         lines[Len(lines)].text

\* str::replace(s, "'", "''")
RECURSIVE ReplaceQuote(_)
ReplaceQuote(s) ==
    IF s = << >> THEN << >>
    ELSE (IF Head(s) = "'" THEN << "'", "'" >> ELSE << Head(s) >>) \o
         ReplaceQuote(Tail(s))

Preamble ==
    << "#!/bin/sh", NL,
       NL,
       "# Generated by the MARKDOWN executor", NL,
       "# This file is automatically deleted once the execution completes", NL,
       NL,
       "set -e", NL,
       NL >>

\* (mutant) a body that does not end a command with a line feed
RECURSIVE DefaultBodyNoNewline(_)
DefaultBodyNoNewline(cmds) ==
    IF cmds = << >> THEN << >>
    ELSE CommandToString(Head(cmds)) \o DefaultBodyNoNewline(Tail(cmds))

\* the body of the script in the mode Default
RECURSIVE DefaultBody(_)
DefaultBody(cmds) ==
    IF cmds = << >> THEN << >>
    ELSE CommandToString(Head(cmds)) \o << NL >> \o DefaultBody(Tail(cmds))

\* the commands after the first, in the mode DelayBetweenCommands
RECURSIVE DelayedRest(_, _)
DelayedRest(cmds, delay_in_millis) ==
    IF cmds = << >> THEN << >>
    ELSE << "sleep " >> \o Decimal(delay_in_millis) \o << NL >> \o
         CommandToString(Head(cmds)) \o << NL >> \o
         DelayedRest(Tail(cmds), delay_in_millis)

\* (mutant) a body with a sleep line before every command, the first one too
DelayBodySleepBeforeEach(cmds, delay_in_millis) ==
    DelayedRest(cmds, delay_in_millis)

\* the body of the script in the mode DelayBetweenCommands
DelayBody(cmds, delay_in_millis) ==
    IF cmds = << >> THEN << >>
    ELSE CommandToString(Head(cmds)) \o << NL >> \o
         DelayedRest(Tail(cmds), delay_in_millis)

\* the text the mode Interactive writes before the functions
InteractiveHeader ==
    << "# When set to true, it will execute the remaining commands without interaction", NL,
       "EXECUTE_ALL=false", NL,
       NL >>

\* the function of the command number index, and its call
InteractiveFunction(index, command) ==
    LET command_to_echo ==
            ReplaceQuote(IF command = << >> THEN << "Missing command!!" >>
                         ELSE command[1].text)
        command_to_execute == CommandToString(command)
    IN  << "# Confirms before executing each command.  The command can be skipped and the script exited.", NL,
           "interactive_" >> \o Decimal(index) \o << "() {", NL,
           NL,
           "  if [ \"${EXECUTE_ALL}\" != true ]; then", NL,
           "    echo '\\033[0;02m--------------------------------------------------\\033[0m'", NL,
           "    echo '\\033[0;94m>\\033[0m \\033[0;92m" >> \o command_to_echo \o << "\\033[0m'", NL,
           "    echo '\\033[0;02m--------------------------------------------------'", NL,
           "    read -r -p 'Press enter to execute,", NL,
           " A to execute all the remaining commands,", NL,
           " S to skip and", NL,
           " X to exit ' input", NL,
           "    echo '--------------------------------------------------\\033[0m'", NL,
           NL,
           "    case ${input} in", NL,
           "      [sS] ) return;;", NL,
           "      [xX] ) exit 0;;", NL,
           "      [aA] ) EXECUTE_ALL=true;", NL,
           "        ;;", NL,
           "      * )", NL,
           "        ;;", NL,
           "    esac", NL,
           "  fi", NL,
           NL,
           "  # Execute the command", NL,
           "  " >> \o command_to_execute \o << NL,
           "}", NL,
           NL,
           "interactive_" >> \o Decimal(index) \o << NL,
           NL,
           NL >>

\* (mutant) functions that all carry the first index
RECURSIVE InteractiveBodySameIndex(_, _)
InteractiveBodySameIndex(cmds, index) ==
    IF cmds = << >> THEN << >>
    ELSE InteractiveFunction(index, Head(cmds)) \o
         InteractiveBodySameIndex(Tail(cmds), index)

\* the functions of the commands from number index on
RECURSIVE InteractiveBody(_, _)
InteractiveBody(cmds, index) ==
    IF cmds = << >> THEN << >>
    ELSE InteractiveFunction(index, Head(cmds)) \o
         InteractiveBody(Tail(cmds), index + 1)

\* (mutant) a script whose mode-specific text comes before the preamble
AsShellScriptPreambleLast(cmds, mode) ==
    IF mode.tag = "Default" THEN Preamble \o DefaultBody(cmds)
    ELSE IF mode.tag = "DelayBetweenCommands"
    THEN Preamble \o DelayBody(cmds, mode.delay_in_millis)
    ELSE InteractiveHeader \o Preamble \o InteractiveBody(cmds, 0)

AsShellScript(cmds, mode) ==
    Preamble \o
    (IF mode.tag = "Default" THEN DefaultBody(cmds)
     ELSE IF mode.tag = "DelayBetweenCommands"
     THEN DelayBody(cmds, mode.delay_in_millis)
     ELSE InteractiveHeader \o InteractiveBody(cmds, 0))

(***************************************************************************)
(* The temporary script file and the process.                               *)
(***************************************************************************)
\* the file: whether it is on the disk, may be executed, and what it holds
NoFile == [exists |-> FALSE, executable |-> FALSE, text |-> None]

\* the exit status of a process that panics
PanicStatus == 101

(***************************************************************************)
(* The actions.                                                            *)
(***************************************************************************)
\* a call of parse on one of the texts, with some of the options
InitParse(texts, froms, untils, skips) ==
    /\ content \in texts
    /\ execute_from \in froms
    /\ execute_until \in untils
    /\ skip_commands \in skips
    /\ line_no = 0
    /\ commands = InitialLocals.commands
    /\ buffer_command = InitialLocals.buffer_command
    /\ within_command_block = InitialLocals.within_command_block
    /\ within_here_document_block = InitialLocals.within_here_document_block
    /\ execute_from_found = InitialLocals.execute_from_found
    /\ execute_until_found = InitialLocals.execute_until_found
    /\ pc = "loop"
    /\ result = None
    /\ execution_mode = Default
    /\ script = None
    /\ files = 0
    /\ script_file = NoFile
    /\ child = "none"
    /\ statuses = << >>
    /\ exit_code = None
    /\ EXECUTE_ALL = None
    /\ calls = << >>
    /\ script_status = None

\* the loop takes the next line
NextLine ==
    /\ pc = "loop"
    /\ line_no < Len(content)
    /\ ~execute_until_found
    /\ LET st == LoopBody(Locals, line_no + 1, content[line_no + 1], Options)
       IN  /\ commands' = st.commands
           /\ buffer_command' = st.buffer_command
           /\ within_command_block' = st.within_command_block
           /\ within_here_document_block' = st.within_here_document_block
           /\ execute_from_found' = st.execute_from_found
           /\ execute_until_found' = st.execute_until_found
    /\ line_no' = line_no + 1
    /\ UNCHANGED << content, execute_from, execute_until, skip_commands, pc, result >>
    /\ UNCHANGED mainVars
    /\ UNCHANGED shVars

\* the loop is over, at the end of the text or by its break: parse returns
EndOfLoop ==
    /\ pc = "loop"
    /\ line_no = Len(content) \/ execute_until_found
    /\ result' = Some(Return(Locals, Options))
    /\ pc' = "done"
    /\ UNCHANGED << content, execute_from, execute_until, skip_commands, line_no,
                    commands, buffer_command, within_command_block,
                    within_here_document_block, execute_from_found,
                    execute_until_found >>
    /\ UNCHANGED mainVars
    /\ UNCHANGED shVars

Next == NextLine \/ EndOfLoop

\* The process panics.  Unwinding drops the ShellScript, if main holds one, and
\* Drop removes the file.
Panic(holdsShellScript) ==
    /\ pc' = "panicked"
    /\ exit_code' = Some(PanicStatus)
    /\ script_file' = IF holdsShellScript THEN NoFile ELSE script_file

\* Options::build: the commands of the parse, or a panic on its error
Build ==
    /\ pc = "done"
    /\ IF result[1].tag = "Ok"
       THEN pc' = "built" /\ UNCHANGED << exit_code, script_file >>
       ELSE Panic(FALSE)
    /\ UNCHANGED << content, execute_from, execute_until, skip_commands, line_no,
                    commands, buffer_command, within_command_block,
                    within_here_document_block, execute_from_found,
                    execute_until_found, result, execution_mode, script, files,
                    child, statuses >>
    /\ UNCHANGED shVars

\* main calls as_shell_script on the commands
CallAsShellScript ==
    /\ pc = "built"
    /\ script' = Some(AsShellScript(result[1].commands, execution_mode))
    /\ pc' = "script"
    /\ UNCHANGED << content, execute_from, execute_until, skip_commands, line_no,
                    commands, buffer_command, within_command_block,
                    within_here_document_block, execute_from_found,
                    execute_until_found, result, execution_mode, files,
                    script_file, child, statuses, exit_code >>
    /\ UNCHANGED shVars

\* ShellScript::new: the file is created, made executable and written, each
\* of which may fail; there is a ShellScript only once all three are done
NewOutcomes == { "no file", "not executable", "not written", "ok" }
ShellScriptNew ==
    /\ pc = "script"
    /\ \E outcome \in NewOutcomes :
          IF outcome = "ok"
          THEN /\ script_file' = [exists |-> TRUE, executable |-> TRUE, text |-> script]
               /\ pc' = "new"
               /\ UNCHANGED exit_code
          ELSE /\ pc' = "panicked"
               /\ exit_code' = Some(PanicStatus)
               /\ script_file' =
                      IF outcome = "no file" THEN NoFile
                      ELSE [exists |-> TRUE,
                            executable |-> (outcome = "not written"),
                            text |-> None]
    /\ UNCHANGED << content, execute_from, execute_until, skip_commands, line_no,
                    commands, buffer_command, within_command_block,
                    within_here_document_block, execute_from_found,
                    execute_until_found, result, execution_mode, script, files,
                    child, statuses >>
    /\ UNCHANGED shVars

\* ShellScript::run, up to spawn: /bin/sh is started on the file, or the
\* process panics
Spawn ==
    /\ pc = "new"
    /\ \E spawned \in BOOLEAN :
          IF spawned
          THEN /\ child' = "running"
               /\ pc' = "running"
               /\ UNCHANGED << exit_code, script_file >>
          ELSE Panic(TRUE) /\ UNCHANGED child
    /\ UNCHANGED << content, execute_from, execute_until, skip_commands, line_no,
                    commands, buffer_command, within_command_block,
                    within_here_document_block, execute_from_found,
                    execute_until_found, result, execution_mode, script, files,
                    statuses >>
    /\ UNCHANGED shVars

\* ShellScript::run, wait: the subprocess ends with some status, which run
\* does not look at; or wait fails and the process panics
ExitStatuses == { 0, 1 }
Wait ==
    /\ pc = "running"
    /\ \/ \E status \in ExitStatuses :
            /\ child' = "exited"
            /\ statuses' = Append(statuses, status)
            /\ pc' = "ran"
            /\ UNCHANGED << exit_code, script_file >>
       \/ Panic(TRUE) /\ UNCHANGED << child, statuses >>
    /\ UNCHANGED << content, execute_from, execute_until, skip_commands, line_no,
                    commands, buffer_command, within_command_block,
                    within_here_document_block, execute_from_found,
                    execute_until_found, result, execution_mode, script, files >>
    /\ UNCHANGED shVars

\* Drop for ShellScript, at the end of the statement of main
Drop ==
    /\ pc = "ran"
    /\ script_file' = NoFile
    /\ child' = "none"
    /\ pc' = "dropped"
    /\ UNCHANGED << content, execute_from, execute_until, skip_commands, line_no,
                    commands, buffer_command, within_command_block,
                    within_here_document_block, execute_from_found,
                    execute_until_found, result, execution_mode, script, files,
                    statuses, exit_code >>
    /\ UNCHANGED shVars

\* the loop of main takes the next file, with the same arguments
NextFile(texts) ==
    /\ pc = "dropped"
    /\ files > 0
    /\ files' = files - 1
    /\ content' \in texts
    /\ line_no' = 0
    /\ commands' = InitialLocals.commands
    /\ buffer_command' = InitialLocals.buffer_command
    /\ within_command_block' = InitialLocals.within_command_block
    /\ within_here_document_block' = InitialLocals.within_here_document_block
    /\ execute_from_found' = InitialLocals.execute_from_found
    /\ execute_until_found' = InitialLocals.execute_until_found
    /\ pc' = "loop"
    /\ result' = None
    /\ script' = None
    /\ UNCHANGED << execute_from, execute_until, skip_commands, execution_mode,
                    script_file, child, statuses, exit_code >>
    /\ UNCHANGED shVars

\* main returns after the last file
MainReturns ==
    /\ pc = "dropped"
    /\ files = 0
    /\ exit_code' = Some(0)
    /\ pc' = "exit"
    /\ UNCHANGED << content, execute_from, execute_until, skip_commands, line_no,
                    commands, buffer_command, within_command_block,
                    within_here_document_block, execute_from_found,
                    execute_until_found, result, execution_mode, script, files,
                    script_file, child, statuses >>
    /\ UNCHANGED shVars

(***************************************************************************)
(* The run of an interactive script by /bin/sh: the shell code that         *)
(* as_shell_script writes, one step for the header and one for each call    *)
(* of a function.                                                          *)
(***************************************************************************)
\* the script has the line 'EXECUTE_ALL=false'
SetsExecuteAll(text) ==
    \E p \in 1..Len(text) - 1 :
        /\ (IF p = 1 THEN TRUE ELSE text[p - 1] = NL)
        /\ text[p] = "EXECUTE_ALL=false"
        /\ text[p + 1] = NL

\* the script has the line 'interactive_<index>', the call of the function
CallsFunction(text, index) ==
    LET call == << "interactive_" >> \o Decimal(index) \o << NL >>
    IN  \E p \in 1..Len(text) :
            /\ (IF p = 1 THEN TRUE ELSE text[p - 1] = NL)
            /\ text[p] = "interactive_"
            /\ p + Len(call) - 1 <= Len(text)
            /\ SubSeq(text, p, p + Len(call) - 1) = call

\* what the user may answer to the prompt
Inputs == { "", "s", "S", "x", "X", "a", "A", "y" }

\* (mutant) the answer A runs the command and leaves the flag as it is
CaseInputAllOnce(input, flag) ==
    IF input \in { "s", "S" } THEN [flag |-> flag, then |-> "return"]
    ELSE IF input \in { "x", "X" } THEN [flag |-> flag, then |-> "exit"]
    ELSE [flag |-> flag, then |-> "execute"]

\* case ${input} in: the flag after it, and what the function does then
CaseInput(input, flag) ==
    IF input \in { "s", "S" } THEN [flag |-> flag, then |-> "return"]
    ELSE IF input \in { "x", "X" } THEN [flag |-> flag, then |-> "exit"]
    ELSE IF input \in { "a", "A" } THEN [flag |-> "true", then |-> "execute"]
    ELSE [flag |-> flag, then |-> "execute"]

\* the shell runs the lines before the first function
ScriptStarts ==
    /\ pc = "running"
    /\ child = "running"
    /\ EXECUTE_ALL = None
    /\ script_status = None
    /\ SetsExecuteAll(script[1])
    /\ EXECUTE_ALL' = Some("false")
    /\ UNCHANGED << calls, script_status >>
    /\ UNCHANGED << content, execute_from, execute_until, skip_commands, line_no,
                    commands, buffer_command, within_command_block,
                    within_here_document_block, execute_from_found,
                    execute_until_found, pc, result >>
    /\ UNCHANGED mainVars

\* The shell defines and calls the next function.  The function prompts
\* unless EXECUTE_ALL is true, one answer being read; the command, when it is
\* executed, ends with some status, and under set -e a status other than 0
\* ends the script with that status.
InteractiveCall ==
    /\ pc = "running"
    /\ child = "running"
    /\ EXECUTE_ALL # None
    /\ script_status = None
    /\ CallsFunction(script[1], Len(calls))
    /\ \E input \in (IF EXECUTE_ALL[1] # "true"
                      THEN { Some(i) : i \in Inputs } ELSE { None }) :
       \E status \in ExitStatuses :
          LET case == IF input = None
                      THEN [flag |-> EXECUTE_ALL[1], then |-> "execute"]
                      ELSE CaseInput(input[1], EXECUTE_ALL[1])
              executed == case.then = "execute"
          IN  /\ ~executed => status = 0
              /\ EXECUTE_ALL' = Some(case.flag)
              /\ calls' = Append(calls,
                                 [ index |-> Len(calls),
                                   input |-> input,
                                   executed |-> executed,
                                   status |-> IF executed THEN Some(status) ELSE None ])
              /\ script_status' =
                     IF case.then = "exit" THEN Some(0)
                     ELSE IF executed /\ status # 0 THEN Some(status)
                     ELSE None
    /\ UNCHANGED << content, execute_from, execute_until, skip_commands, line_no,
                    commands, buffer_command, within_command_block,
                    within_here_document_block, execute_from_found,
                    execute_until_found, pc, result >>
    /\ UNCHANGED mainVars

\* the shell comes to the end of the script
ScriptEnds ==
    /\ pc = "running"
    /\ child = "running"
    /\ EXECUTE_ALL # None
    /\ script_status = None
    /\ ~CallsFunction(script[1], Len(calls))
    /\ script_status' = Some(0)
    /\ UNCHANGED << EXECUTE_ALL, calls >>
    /\ UNCHANGED << content, execute_from, execute_until, skip_commands, line_no,
                    commands, buffer_command, within_command_block,
                    within_here_document_block, execute_from_found,
                    execute_until_found, pc, result >>
    /\ UNCHANGED mainVars

(***************************************************************************)
(* The markdown texts parse is called on.                                  *)
(***************************************************************************)
\* every text of at most n lines, each line one of the pool
Texts(pool, n) == UNION { [1..k -> pool] : k \in 0..n }

LnOpen == OpenFence                                  \* the fence, unindented
LnOpenIn == << " " >> \o OpenFence                   \* the fence, indented
LnClose == CloseFence
LnCloseIn == << " " >> \o CloseFence
LnA == << "$", " ", "a" >>                           \* $ a
LnB == << " ", "$", " ", "b" >>                      \*  $ b
LnCont == << "$", " ", "c", " ", "\\" >>             \* $ c \
LnHere == << "$", " ", "d", "<", "<", "E" >>         \* $ d<<E
LnDelim == << "E" >>

\* Spec: a text that begins with a shell fence, and a call with no option
BlockLines ==
    { LnOpen, LnOpenIn, LnClose, LnCloseIn, LnA, LnB, LnCont, LnHere, LnDelim }
BlockTexts ==
    { << open >> \o body : open \in { LnOpen, LnOpenIn },
                            body \in Texts(BlockLines, MaxBody) }

Init == InitParse(BlockTexts, { None }, { None }, { None })
Spec == Init /\ [][Next]_vars

\* SpecRange: any text, and a call with execute_from and execute_until
RangeLines == { LnOpen, LnClose, LnA, LnB, LnCont }
MarkerA == << "$", " ", "A" >>                       \* equals LnA but for the case
MarkerB == << "$", " ", "b" >>                       \* equals LnB once trimmed
MarkerC == LnCont
FromMarkers == { None, Some(MarkerA), Some(MarkerB), Some(LnClose) }
UntilMarkers == { None, Some(MarkerA), Some(MarkerB), Some(MarkerC) }

InitRange ==
    InitParse(Texts(RangeLines, MaxLines), FromMarkers, UntilMarkers, { None })
SpecRange == InitRange /\ [][Next]_vars

\* SpecIndent: a text of list items, each with a whole shell block indented
\* under it, and a call with no option
LnItem == << "-", " ", "x" >>                        \* - x
Spaces(c) == [i \in 1..c |-> " "]
Block(body) == << LnOpen >> \o body \o << LnClose >>
IndentBlock(block, c) == [i \in 1..Len(block) |-> Spaces(c) \o block[i]]
Bodies ==
    { << LnA >>, << LnB, LnA >>, << LnCont, LnA >>, << LnHere, LnA, LnDelim >> }

RECURSIVE Documents(_)
Documents(n) ==
    IF n = 0
    THEN { << >> }
    ELSE Documents(n - 1) \cup
         { d \o << LnItem >> \o IndentBlock(Block(body), c) :
             d \in Documents(n - 1), body \in Bodies, c \in 0..MaxIndent }

InitIndent == InitParse(Documents(MaxBlocks), { None }, { None }, { None })
SpecIndent == InitIndent /\ [][Next]_vars

\* SpecSkip: a text that begins with a shell fence, and a call with
\* skip_commands and execute_until
SkipLines == { LnClose, LnA, LnB, LnCont, LnHere, LnDelim }
SkipTexts == { << LnOpen >> \o body : body \in Texts(SkipLines, MaxSkipBody) }
SkipPatterns == { None, Some(<< "a" >>), Some(<< " ", "a" >>), Some(<< "c" >>) }
SkipUntilMarkers == { None, Some(MarkerA), Some(MarkerB) }

InitSkip == InitParse(SkipTexts, { None }, SkipUntilMarkers, SkipPatterns)
SpecSkip == InitSkip /\ [][Next]_vars

\* SpecMain: main on one or more files, each one shell block of commands,
\* with execute_from, execute_until and every execution mode
MainLines == { LnA, LnB, LnCont }
MainTexts ==
    { << LnOpen >> \o body \o << LnClose >> : body \in Texts(MainLines, MaxCommands) }
Modes == { Default, DelayBetweenCommands(0), DelayBetweenCommands(100), Interactive }

MainMarkers == { None, Some(MarkerA) }
InitMain ==
    /\ content \in MainTexts
    /\ execute_from \in MainMarkers
    /\ execute_until \in MainMarkers
    /\ skip_commands = None
    /\ line_no = 0
    /\ commands = InitialLocals.commands
    /\ buffer_command = InitialLocals.buffer_command
    /\ within_command_block = InitialLocals.within_command_block
    /\ within_here_document_block = InitialLocals.within_here_document_block
    /\ execute_from_found = InitialLocals.execute_from_found
    /\ execute_until_found = InitialLocals.execute_until_found
    /\ pc = "loop"
    /\ result = None
    /\ execution_mode \in Modes
    /\ script = None
    /\ files \in 0 .. MaxFiles - 1
    /\ script_file = NoFile
    /\ child = "none"
    /\ statuses = << >>
    /\ exit_code = None
    /\ EXECUTE_ALL = None
    /\ calls = << >>
    /\ script_status = None
NextMain ==
    \/ NextLine
    \/ EndOfLoop
    \/ Build
    \/ CallAsShellScript
    \/ ShellScriptNew
    \/ Spawn
    \/ Wait
    \/ Drop
    \/ NextFile(MainTexts)
    \/ MainReturns
SpecMain == InitMain /\ [][NextMain]_vars

\* SpecBlocks: a text of two shell blocks, each closed by its fence, whose
\* last command may be left open, and a call with no option
PairLines == { LnA, LnCont, LnHere, LnDelim }
PairTexts ==
    { Block(first) \o Block(second) :
        first \in Texts(PairLines, MaxPairBody), second \in Texts(PairLines, MaxPairBody) }

InitBlocks == InitParse(PairTexts, { None }, { None }, { None })
SpecBlocks == InitBlocks /\ [][Next]_vars

\* SpecInteractive: /bin/sh runs the interactive script of a text of one
\* block of single-line commands; main waits for it
RunTexts ==
    { << LnOpen >> \o [i \in 1..n |-> LnA] \o << LnClose >> : n \in 0..MaxFunctions }

InitInteractive ==
    /\ content \in RunTexts
    /\ execute_from = None
    /\ execute_until = None
    /\ skip_commands = None
    /\ line_no = Len(content)
    /\ LET st == Scan(InitialLocals, content, 1, Options)
       IN  /\ commands = st.commands
           /\ buffer_command = st.buffer_command
           /\ within_command_block = st.within_command_block
           /\ within_here_document_block = st.within_here_document_block
           /\ execute_from_found = st.execute_from_found
           /\ execute_until_found = st.execute_until_found
    /\ pc = "running"
    /\ result = Some(Parse(content, Options))
    /\ execution_mode = Interactive
    /\ script = Some(AsShellScript(result[1].commands, execution_mode))
    /\ files = 0
    /\ script_file = [exists |-> TRUE, executable |-> TRUE, text |-> script]
    /\ child = "running"
    /\ statuses = << >>
    /\ exit_code = None
    /\ EXECUTE_ALL = None
    /\ calls = << >>
    /\ script_status = None
NextInteractive ==
    \/ ScriptStarts
    \/ InteractiveCall
    \/ ScriptEnds
SpecInteractive == InitInteractive /\ [][NextInteractive]_vars

(***************************************************************************)
(* Notions the properties are stated with.                                 *)
(***************************************************************************)
NoOptions == [ execute_from |-> None, execute_until |-> None, skip_commands |-> None ]

CalledWithNoOptions ==
    execute_from = None /\ execute_until = None /\ skip_commands = None

Returned == pc = "done"
ReturnedOk == pc = "done" /\ result[1].tag = "Ok"

\* what the line reads from the column offset on, without a leading "$ "
Unprompted(line, offset) ==
    LET l == SubSeq(line, offset + 1, Len(line))
    IN  IF Len(l) >= 2 /\ l[1] = "$" /\ l[2] = " " THEN SubSeq(l, 3, Len(l)) ELSE l

\* the line is the marker but for its case and the white space around it
Matches(line, marker) == EqIgnoreAsciiCase(Trim(line), marker)

HasOpenFence(line) == Contains(line, OpenFence)

\* the local variables of parse before it takes line number no of the text
LocalsBefore(text, no, opts) == Scan(InitialLocals, SubSeq(text, 1, no - 1), 1, opts)

(***************************************************************************)
(* C1. A text made of one shell fence around N single-line commands, parsed *)
(* with no option, gives exactly N commands: the i-th command is the i-th   *)
(* content line, read from the column of the fence, without its leading     *)
(* "$ ", and the commands are in the order of the lines.                    *)
(***************************************************************************)
\* the text is an open fence, single-line commands and the close fence
OneFenceOfSingleLines(text) ==
    /\ Len(text) >= 2
    /\ HasOpenFence(text[1])
    /\ LET offset == CHOOSE i \in 0..Len(text[1]) :
                        /\ MatchesAt(text[1], OpenFence, i)
                        /\ \A j \in 0..(i - 1) : ~MatchesAt(text[1], OpenFence, j)
       IN  /\ SubSeq(text[Len(text)], offset + 1, Len(text[Len(text)])) = CloseFence
           /\ \A i \in 2..(Len(text) - 1) :
                /\ ~HasOpenFence(text[i])
                /\ SubSeq(text[i], offset + 1, Len(text[i])) # CloseFence
                /\ ~Contains(text[i], HereDocument)
                /\ ~EndsWith(text[i], Continuation)

SingleLinesInOrder ==
    (Returned /\ CalledWithNoOptions /\ OneFenceOfSingleLines(content)) =>
        LET offset == Find(content[1], OpenFence)[1]
            n == Len(content) - 2
        IN  result = Some(Ok([i \in 1..n |->
                    << Slice(i + 1, Unprompted(content[i + 1], offset)) >>]))

\* two commands in an indented fence, the second with a prompt
SingleLinesInOrderWitness ==
    /\ Returned /\ CalledWithNoOptions /\ OneFenceOfSingleLines(content)
    /\ content[1] = LnOpenIn
    /\ Len(content) = 4
    /\ content[3] = LnB
    /\ Len(result[1].commands) = 2

(***************************************************************************)
(* C2. When no line of the text contains the open fence, a parse that       *)
(* succeeds gives no command; and no command ever holds a line that has no  *)
(* open fence before it.                                                    *)
(***************************************************************************)
NoFenceNoCommand ==
    ReturnedOk =>
        /\ (\A i \in 1..Len(content) : ~HasOpenFence(content[i])) =>
               result[1].commands = << >>
        /\ \A c \in 1..Len(result[1].commands) :
               \A l \in 1..Len(result[1].commands[c]) :
                   \E i \in 1..(result[1].commands[c][l].no - 1) :
                       HasOpenFence(content[i])

\* a text of commands and a close fence but no open fence, parsed up to the
\* until line
NoFenceNoCommandWitness ==
    /\ ReturnedOk
    /\ \A i \in 1..Len(content) : ~HasOpenFence(content[i])
    /\ Len(content) = 3
    /\ content[1] = LnClose
    /\ content[2] = LnA
    /\ execute_until # None

(***************************************************************************)
(* Lines i..j of the content lie inside a shell fence, at or past its      *)
(* column, and the parser comes to line i with no command begun.           *)
(***************************************************************************)
\* the line is a fence line of the block at the offset
IsFenceLine(line, offset) ==
    HasOpenFence(line) \/ SubSeq(line, offset + 1, Len(line)) = CloseFence

\* what the line reads from the column offset on
Indented(line, offset) == SubSeq(line, offset + 1, Len(line))

FreshInsideFence(i, j) ==
    /\ 2 <= i /\ i <= j /\ j <= Len(content)
    /\ LET st == LocalsBefore(content, i, NoOptions)
       IN  /\ st.within_command_block # None
           /\ st.within_here_document_block = None
           /\ st.buffer_command = << >>
           /\ \A k \in i..j :
                /\ ~IsFenceLine(content[k], st.within_command_block[1])
                /\ Len(content[k]) > st.within_command_block[1]

\* the local variables before line i, with one more command: lines i..j, the
\* k-th of them holding text[k]
WithCommand(i, j, text) ==
    LET st == LocalsBefore(content, i, NoOptions)
    IN  [st EXCEPT !.commands =
            Append(st.commands, [k \in 1..(j - i + 1) |-> Slice(i + k - 1, text[k])])]

(***************************************************************************)
(* C3 as stated.  A command written over K lines inside a fence, the first *)
(* K-1 ending with a backslash and the K-th not, gives exactly one command *)
(* of these K lines in their order, the backslashes kept, and leaves the   *)
(* commands before and after it as they are: the parser comes out of the   *)
(* K-th line as it came to the first, with that one command more.          *)
(***************************************************************************)
BackslashContinued(i, j) ==
    /\ i < j
    /\ \A k \in i..(j - 1) : EndsWith(content[k], Continuation)
    /\ ~EndsWith(content[j], Continuation)
    /\ FreshInsideFence(i, j)

CommandLinesOf(i, j) ==
    LET offset == LocalsBefore(content, i, NoOptions).within_command_block[1]
    IN  [k \in 1..(j - i + 1) |-> Unprompted(content[i + k - 1], offset)]

HereDocumentLines(i, j) ==
    /\ i < j
    /\ FreshInsideFence(i, j)
    /\ LET offset == LocalsBefore(content, i, NoOptions).within_command_block[1]
           first == Unprompted(content[i], offset)
       IN  /\ Contains(first, HereDocument)
           /\ Indented(content[j], offset) = HereDocumentDelimiter(first)
           /\ \A k \in (i + 1)..(j - 1) :
                Indented(content[k], offset) # HereDocumentDelimiter(first)

VerbatimLinesOf(i, j) ==
    LET offset == LocalsBefore(content, i, NoOptions).within_command_block[1]
    IN  [k \in 1..(j - i + 1) |->
            IF k = 1 THEN Unprompted(content[i], offset)
                     ELSE Indented(content[i + k - 1], offset)]

HereDocumentVerbatim ==
    CalledWithNoOptions =>
        \A i \in 2..line_no :
            HereDocumentLines(i, line_no) =>
                Locals = WithCommand(i, line_no, VerbatimLinesOf(i, line_no))

(***************************************************************************)
(* C5.  Indentation invariance: a text whose shell blocks are each indented *)
(* as a whole (open fence, content lines and close fence moved right by the *)
(* same number of columns, which may differ from block to block) gives the  *)
(* same commands as the text with every block moved back to column 0.       *)
(***************************************************************************)
\* The text with every block moved back to column 0.  block is None outside a
\* block and Some(c) inside a block that is indented by c columns.
RECURSIVE Unindented(_, _)
Unindented(text, block) ==
    IF text = << >>
    THEN << >>
    ELSE LET line == Head(text)
         IN  IF block = None
             THEN IF \E c \in 0..Len(line) : line = Spaces(c) \o OpenFence
                  THEN << OpenFence >> \o
                       Unindented(Tail(text), Some(Len(line) - Len(OpenFence)))
                  ELSE << line >> \o Unindented(Tail(text), None)
             ELSE << SubSeq(line, block[1] + 1, Len(line)) >> \o
                  Unindented(Tail(text),
                             IF line = Spaces(block[1]) \o CloseFence
                             THEN None ELSE block)

IndentationInvariance ==
    Returned =>
        TextOfResult(result[1]) =
            TextOfResult(Parse(Unindented(content, None), Options))

\* a continued command in a block indented by one column, then a
\* here-document in a block indented by two
IndentationInvarianceWitness ==
    /\ Returned
    /\ content = << LnItem >> \o IndentBlock(Block(<< LnCont, LnA >>), 1) \o
                 << LnItem >> \o IndentBlock(Block(<< LnHere, LnA, LnDelim >>), 2)
    /\ Unindented(content, None) # content
    /\ TextOfResult(result[1]) =
           Ok(<< << << "c", " ", "\\" >>, << "a" >> >>,
                 << << "d", "<", "<", "E" >>, << "a" >>, << "E" >> >> >>)

(***************************************************************************)
(* Notions of the range properties: the lines that equal a marker.         *)
(***************************************************************************)
\* some line of the content, from line p on, equals the marker
MatchedFrom(marker, p) ==
    \E i \in p..Len(content) : Matches(content[i], marker)

\* the first line of the content, from line p on, that equals the marker
FirstMatchFrom(marker, p) ==
    CHOOSE i \in p..Len(content) :
        /\ Matches(content[i], marker)
        /\ \A j \in p..(i - 1) : ~Matches(content[j], marker)

\* line i of the content is the open fence or the close fence of a block
IsFenceOfBlock(i) ==
    \/ HasOpenFence(content[i])
    \/ LET block == LocalsBefore(content, i, NoOptions).within_command_block
       IN  block # None /\ Indented(content[i], block[1]) = CloseFence

\* The message of the error tells the marker: the markers of a message are at
\* its even places, between the pieces of fixed text.
Names(message, marker) ==
    \E j \in 1..Len(message) : j % 2 = 0 /\ message[j] = marker

(***************************************************************************)
(* C7.  When execute_from is set and no line of the text equals the marker, *)
(* parse returns an error, never a list of commands, and its message is     *)
(* "No line matched the execute from: '<marker>'" with the marker as it was *)
(* given; this whatever execute_until is.                                   *)
(***************************************************************************)
FromNotFoundError ==
    ( /\ Returned
      /\ execute_from # None
      /\ ~MatchedFrom(execute_from[1], 1) ) =>
        result = Some([ tag |-> "Err",
                        message |-> << "No line matched the execute from: '",
                                       execute_from[1], "'" >> ])

\* the from marker is in no line, and the until marker is in a line of a block
FromNotFoundErrorWitness ==
    /\ Returned
    /\ content = << LnOpen, LnA, LnClose >>
    /\ execute_from = Some(MarkerB)
    /\ execute_until = Some(MarkerA)
    /\ result[1].tag = "Err"

(***************************************************************************)
(* C6.  With execute_from set and k the first line that equals the marker:  *)
(* no command of the output holds a line before k; when line k is a         *)
(* single-line command of a block, that command is the first of the output; *)
(* and the parse goes on from line k as one without execute_from does, a    *)
(* later line that equals the marker being a line like any other.           *)
(***************************************************************************)
\* the local variables after the loop, had it begun at line k with no
\* execute_from, in the block line k lies in
ScanFromLine(k) ==
    Scan([InitialLocals EXCEPT
              !.within_command_block =
                  LocalsBefore(content, k, NoOptions).within_command_block],
         content, k, [Options EXCEPT !.execute_from = None])

\* line k is a command of one line in a block
SingleLineCommand(k) ==
    /\ ~IsFenceOfBlock(k)
    /\ LocalsBefore(content, k, NoOptions).within_command_block # None
    /\ ~Contains(content[k], HereDocument)
    /\ ~EndsWith(content[k], Continuation)

StartsAtFirstFromMatch ==
    ( /\ Returned
      /\ execute_from # None
      /\ MatchedFrom(execute_from[1], 1) ) =>
        LET k == FirstMatchFrom(execute_from[1], 1)
            offset == LocalsBefore(content, k, NoOptions).within_command_block[1]
        IN  /\ \A c \in 1..Len(commands) :
                    \A l \in 1..Len(commands[c]) : commands[c][l].no >= k
            /\ (SingleLineCommand(k) /\ result[1].tag = "Ok") =>
                   /\ result[1].commands # << >>
                   /\ result[1].commands[1] =
                          << Slice(k, Unprompted(content[k], offset)) >>
            /\ result[1] =
                   Return([ScanFromLine(k) EXCEPT !.execute_from_found = TRUE],
                          Options)

(***************************************************************************)
(* C8.  With execute_until set and u the first line, at or after the from   *)
(* point, that equals the marker: the scan stops at line u and the parse    *)
(* succeeds; the command that holds line u, if any, is the last command of  *)
(* the output and ends with that line; no line after u is in the output.    *)
(***************************************************************************)
\* the line the parse starts from: the first line, or the first line that
\* equals the from marker
FromPoint ==
    IF execute_from = None THEN 1 ELSE FirstMatchFrom(execute_from[1], 1)

StopsAtFirstUntilMatch ==
    ( /\ Returned
      /\ execute_until # None
      /\ execute_from # None => MatchedFrom(execute_from[1], 1)
      /\ MatchedFrom(execute_until[1], FromPoint) ) =>
        LET u == FirstMatchFrom(execute_until[1], FromPoint)
        IN  /\ line_no = u
            /\ result[1].tag = "Ok"
            /\ \A c \in 1..Len(commands) :
                    \A l \in 1..Len(commands[c]) :
                        /\ commands[c][l].no <= u
                        /\ commands[c][l].no = u =>
                               c = Len(commands) /\ l = Len(commands[c])

UntilBeforeFromIgnored ==
    ( /\ Returned
      /\ execute_from # None
      /\ execute_until # None
      /\ MatchedFrom(execute_from[1], 1)
      /\ \E i \in 1..(FromPoint - 1) : Matches(content[i], execute_until[1]) ) =>
        IF MatchedFrom(execute_until[1], FromPoint)
        THEN LET u == FirstMatchFrom(execute_until[1], FromPoint)
             IN  /\ result[1].tag = "Ok"
                 /\ line_no = u
                 /\ \A c \in 1..Len(commands) :
                         \A l \in 1..Len(commands[c]) :
                             /\ commands[c][l].no >= FromPoint
                             /\ commands[c][l].no <= u
        ELSE result = Some([ tag |-> "Err",
                             message |-> << "No line matched the execute until: '",
                                            execute_until[1],
                                            "' after the execute from: '",
                                            execute_from[1], "'" >> ])

RECURSIVE JoinedWithSpace(_)
JoinedWithSpace(lines) ==
    IF lines = << >> THEN << >>
    ELSE IF Len(lines) = 1 THEN lines[1].text
    ELSE lines[1].text \o << " " >> \o JoinedWithSpace(Tail(lines))

\* the commands, in their order, less those the pattern is found in
RECURSIVE NotMatching(_, _)
NotMatching(cmds, pattern) ==
    IF cmds = << >> THEN << >>
    ELSE IF \E i \in 0..Len(JoinedWithSpace(Head(cmds))) :
                /\ i + Len(pattern) <= Len(JoinedWithSpace(Head(cmds)))
                /\ SubSeq(JoinedWithSpace(Head(cmds)), i + 1, i + Len(pattern)) = pattern
         THEN NotMatching(Tail(cmds), pattern)
         ELSE << Head(cmds) >> \o NotMatching(Tail(cmds), pattern)

NoHereDocumentIn(text) ==
    \A i \in 1..Len(text) : ~Contains(text[i], HereDocument)

SkipsExactlyMatching ==
    ( /\ Returned
      /\ skip_commands # None
      /\ execute_from = None /\ execute_until = None
      /\ NoHereDocumentIn(content) ) =>
        result = Some([ tag |-> "Ok",
                        commands |->
                            NotMatching(Parse(content, NoOptions).commands,
                                        skip_commands[1]) ])

\* a continued command that is skipped for the space it is joined with,
\* between two commands that are kept
SkipsExactlyMatchingWitness ==
    /\ Returned
    /\ content = << LnOpen, LnCont, LnA, LnA >>
    /\ skip_commands = Some(<< " ", "a" >>)
    /\ execute_until = None
    /\ result = Some([ tag |-> "Ok",
                       commands |-> << << Slice(4, << "a" >>) >> >> ])

(***************************************************************************)
(* C13.  A line that completes a command discarded by skip_commands and     *)
(* equals the until marker does not stop the scan, and is not the until     *)
(* match: when no other line is, the parse fails with the until-not-found   *)
(* error.                                                                   *)
(***************************************************************************)
\* the pattern is found in the text
FoundIn(pattern, text) ==
    \E i \in 0..Len(text) :
        i + Len(pattern) <= Len(text) /\ SubSeq(text, i + 1, i + Len(pattern)) = pattern

\* the parser comes to line i, which equals the until marker and completes a
\* command that skip_commands discards
SkippedOnUntilLine(i) ==
    /\ skip_commands # None
    /\ execute_until # None
    /\ Matches(content[i], execute_until[1])
    /\ LET st == LocalsBefore(content, i, Options)
       IN  /\ ~st.execute_until_found
           /\ st.within_command_block # None
           /\ st.within_here_document_block = None
           /\ ~IsFenceLine(content[i], st.within_command_block[1])
           /\ LET command_line == Unprompted(content[i], st.within_command_block[1])
              IN  /\ ~Contains(command_line, HereDocument)
                  /\ ~EndsWith(command_line, Continuation)
                  /\ FoundIn(skip_commands[1],
                             JoinedWithSpace(Append(st.buffer_command,
                                                    Slice(i, command_line))))

Rendered == script # None /\ result # None /\ result[1].tag = "Ok"

\* the lines of the commands, one after the other
RECURSIVE LinesOf(_)
LinesOf(cmds) ==
    IF cmds = << >> THEN << >> ELSE TextOf(Head(cmds)) \o LinesOf(Tail(cmds))

\* the lines, each followed by one line feed
RECURSIVE EachTerminated(_)
EachTerminated(lines) ==
    IF lines = << >> THEN << >>
    ELSE Head(lines) \o << NL >> \o EachTerminated(Tail(lines))

RECURSIVE SplitLines(_, _)
SplitLines(text, line) ==
    IF text = << >> THEN (IF line = << >> THEN << >> ELSE << line >>)
    ELSE IF Head(text) = NL
         THEN << line >> \o SplitLines(Tail(text), << >>)
         ELSE SplitLines(Tail(text), Append(line, Head(text)))

\* the lines of the script after the preamble
BodyLines == SplitLines(SliceFrom(script[1], Len(Preamble)), << >>)

\* the number of lines of the commands before command i
RECURSIVE LinesBefore(_, _)
LinesBefore(cmds, i) ==
    IF i = 1 THEN 0 ELSE LinesBefore(cmds, i - 1) + Len(cmds[i - 1])

\* the line 'sleep <ms>'
SleepLine(ms) == << "sleep " >> \o Decimal(ms)

DelayScript ==
    (Rendered /\ execution_mode.tag = "DelayBetweenCommands") =>
        LET cmds == result[1].commands
            N == Len(cmds)
            sleep == SleepLine(execution_mode.delay_in_millis)
            \* where command i starts: after the lines and the sleeps before it
            start(i) == LinesBefore(cmds, i) + (i - 1) + 1
        IN  /\ SubSeq(script[1], 1, Len(Preamble)) = Preamble
            /\ script[1] = Preamble \/ script[1][Len(script[1])] = NL
            /\ Len(BodyLines) = Len(LinesOf(cmds)) + (IF N = 0 THEN 0 ELSE N - 1)
            /\ \A i \in 1..N :
                   /\ SubSeq(BodyLines, start(i), start(i) + Len(cmds[i]) - 1)
                          = TextOf(cmds[i])
                   /\ i > 1 => BodyLines[start(i) - 1] = sleep
            /\ Cardinality({ k \in 1..Len(BodyLines) : BodyLines[k] = sleep })
                  = (IF N = 0 THEN 0 ELSE N - 1)
            /\ N > 0 => BodyLines[1] # sleep /\ BodyLines[Len(BodyLines)] # sleep

\* three commands and two lines 'sleep 100'
DelayScriptWitness ==
    /\ Rendered
    /\ execution_mode = DelayBetweenCommands(100)
    /\ content = << LnOpen, LnA, LnB, LnA, LnClose >>
    /\ Len(result[1].commands) = 3
    /\ script[1] = Preamble \o
                     << "a", NL,
                        "sleep ", "1", "0", "0", NL,
                        " ", "$", " ", "b", NL,
                        "sleep ", "1", "0", "0", NL,
                        "a", NL >>

(***************************************************************************)
(* C16.  In the mode Interactive the script sets EXECUTE_ALL=false exactly  *)
(* once, before any function; then for i = 0..N-1, in the order of the      *)
(* commands, it defines the function interactive_i, whose last lines are    *)
(* command i, and calls interactive_i right after the end of the            *)
(* definition and before interactive_(i+1) is defined.  The N names are     *)
(* pairwise distinct.                                                      *)
(***************************************************************************)
\* the line begins at place p of the text and a line feed ends it
LineAt(text, p, line) ==
    /\ p = 1 \/ text[p - 1] = NL
    /\ p + Len(line) <= Len(text)
    /\ text[p] = line[1]
    /\ SubSeq(text, p, p + Len(line) - 1) = line
    /\ text[p + Len(line)] = NL

\* the places of the text where the line begins
Positions(text, line) == { p \in 1..Len(text) : LineAt(text, p, line) }

\* the line that opens the definition of interactive_i, and the one that calls it
DefinitionLine(i) == << "interactive_" >> \o Decimal(i) \o << "() {" >>
CallLine(i) == << "interactive_" >> \o Decimal(i)

\* the end of a function that holds the command: the command after two
\* spaces, the closing brace, and an empty line
Held(command) ==
    << NL, "  " >> \o EachTerminated(TextOf(command)) \o << "}", NL, NL >>

InteractiveScript ==
    (Rendered /\ pc = "script" /\ execution_mode = Interactive) =>
        LET cmds == result[1].commands
            N == Len(cmds)
            text == script[1]
            \* the places where the definition of a function opens
            definitions == { p \in 1..Len(text) : text[p] = "() {" }
            sets == Positions(text, << "EXECUTE_ALL=false" >>)
            D(i) == Positions(text, DefinitionLine(i))
            C(i) == Positions(text, CallLine(i))
        IN  /\ Cardinality(sets) = 1
            /\ \A e \in sets : \A d \in definitions : e < d
            /\ Cardinality(definitions) = N
            /\ Cardinality({ DefinitionLine(i) : i \in 0..N - 1 }) = N
            /\ \A i \in 0..N - 1 :
                   /\ Cardinality(D(i)) = 1
                   /\ Cardinality(C(i)) = 1
                   /\ \A d \in D(i) : \A c \in C(i) :
                       LET held == Held(cmds[i + 1])
                       IN  /\ d + Len(DefinitionLine(i)) <= c - Len(held)
                           \* the function ends with the command, right
                           \* before the call
                           /\ SubSeq(text, c - Len(held), c - 1) = held
                           \* no other function is defined before the call
                           /\ \A k \in definitions :
                                  ~(d + Len(DefinitionLine(i)) <= k /\ k < c)
                           /\ \A j \in 0..N - 1 :
                                  /\ j > i => \A k \in D(j) : c < k
                                  /\ j < i => \A k \in C(j) : k < d

\* three commands: interactive_0, interactive_1 and interactive_2
InteractiveScriptWitness ==
    /\ Rendered
    /\ pc = "script"
    /\ execution_mode = Interactive
    /\ content = << LnOpen, LnA, LnB, LnA, LnClose >>
    /\ Len(result[1].commands) = 3
    /\ LET text == script[1]
       IN  \E d0 \in Positions(text, << "interactive_", "0", "() {" >>) :
           \E c0 \in Positions(text, << "interactive_", "0" >>) :
           \E d2 \in Positions(text, << "interactive_", "2", "() {" >>) :
           \E c2 \in Positions(text, << "interactive_", "2" >>) :
               d0 < c0 /\ c0 < d2 /\ d2 < c2

(***************************************************************************)
(* C17.  In every mode and for every list of commands, the empty one too,   *)
(* the script begins with the same text: the line '#!/bin/sh', the comment  *)
(* of the generated file, the line 'set -e' and an empty line; and 'set -e' *)
(* comes before every text of a command or of the mode.                     *)
(***************************************************************************)
\* the pieces of text only the preamble is made of
PreamblePieces ==
    { "#!/bin/sh", "# Generated by the MARKDOWN executor",
      "# This file is automatically deleted once the execution completes",
      "set -e", NL }

SamePreamble ==
    Rendered =>
        LET text == script[1]
            sets == Positions(text, << "set -e" >>)
        IN  /\ Len(text) >= 11
            /\ SubSeq(text, 1, 11) =
                  << "#!/bin/sh", NL,
                     NL,
                     "# Generated by the MARKDOWN executor", NL,
                     "# This file is automatically deleted once the execution completes", NL,
                     NL,
                     "set -e", NL,
                     NL >>
            /\ Cardinality(sets) = 1
            /\ \A e \in sets :
                   \* nothing but the preamble before it
                   \A k \in 1..e : text[k] \in PreamblePieces

\* no command, in the mode Interactive
SamePreambleWitness ==
    /\ Rendered
    /\ pc = "script"
    /\ execution_mode = Interactive
    /\ content = << LnOpen, LnClose >>
    /\ result[1].commands = << >>
    /\ script[1][1] = "#!/bin/sh"
    /\ script[1][9] = "set -e"
    /\ script[1][12] = "# When set to true, it will execute the remaining commands without interaction"

(***************************************************************************)
(* C18.  The life of the script file: it is there and executable whenever   *)
(* the subprocess runs, it is not removed while the subprocess runs, and    *)
(* it is gone when the process has ended, however it ended: the script     *)
(* succeeded or failed, or the process failed before or after it created   *)
(* the file.                                                               *)
(***************************************************************************)
\* the process has ended: main returned or a panic ended it
Ended == pc \in { "exit", "panicked" }

ScriptFileLifecycle ==
    /\ child = "running" =>
           script_file.exists /\ script_file.executable /\ script_file.text = script
    /\ Ended => ~script_file.exists

(***************************************************************************)
(* C19.  When a script ended with a status other than zero, the process     *)
(* does not end with success: the status of the script is the status of    *)
(* the process when main returns.                                          *)
(***************************************************************************)
ExitStatusPropagated ==
    Ended =>
        \A k \in 1..Len(statuses) :
            statuses[k] # 0 =>
                /\ exit_code # Some(0)
                /\ pc = "exit" => exit_code = Some(statuses[k])

(***************************************************************************)
(* C20.  When a marker that is set is not found, the parse of the file      *)
(* returns an error that carries no commands, not even the ones collected   *)
(* by then, and for that file no script is rendered, no file is created    *)
(* and no subprocess is started.                                           *)
(***************************************************************************)
\* the parse has returned and a marker that is set was not found
BoundaryNotFound ==
    /\ result # None
    /\ \/ execute_from # None /\ ~execute_from_found
       \/ execute_until # None /\ ~execute_until_found

BoundaryNotFoundFatal ==
    BoundaryNotFound =>
        /\ result[1].tag = "Err"
        /\ DOMAIN result[1] = { "tag", "message" }
        /\ pc \in { "done", "panicked" }
        /\ script = None
        /\ script_file = NoFile
        /\ child = "none"
        /\ pc = "panicked" => exit_code = Some(PanicStatus)

\* the until marker is not found after a command was collected; the process
\* has ended
BoundaryNotFoundFatalWitness ==
    /\ pc = "panicked"
    /\ BoundaryNotFound
    /\ content = << LnOpen, LnB, LnClose >>
    /\ execute_until = Some(MarkerA)
    /\ commands # << >>
    /\ result[1] = UntilNotFound(MarkerA)
    /\ script = None

(***************************************************************************)
(* C21.  The prompt "$ " is removed only from the first line of a command:  *)
(* every later line of a command, be it the line after a line that ends     *)
(* with a backslash or a line of a here-document, is stored as the text     *)
(* reads from the column of the fence on, a leading "$ " included.          *)
(***************************************************************************)
\* the column of the fence of the block that line number no lies in
OffsetAt(no) == LocalsBefore(content, no, Options).within_command_block[1]

PromptOnlyFromFirstLine ==
    \A c \in 1..Len(commands) :
        \A k \in 2..Len(commands[c]) :
            commands[c][k].text =
                Indented(content[commands[c][k].no], OffsetAt(commands[c][k].no))

(***************************************************************************)
(* C22.  A block opened by a fence at column c is closed by a line exactly  *)
(* when the line reads, from column c on, the close fence.  A line that is  *)
(* the close fence at another column leaves the parser in the block and is  *)
(* taken as a content line of the block: what it reads from column c on is  *)
(* stored as the next line of a command.                                    *)
(***************************************************************************)
\* the line is a close fence and nothing else, at whatever column
IsCloseFenceToken(line) == Trim(line) = CloseFence

FenceClosesAtItsColumn ==
    (line_no >= 1 /\ LocalsBefore(content, line_no, Options).within_command_block # None) =>
        LET before == LocalsBefore(content, line_no, Options)
            c == before.within_command_block[1]
            line == content[line_no]
            stored == Slice(line_no, Unprompted(line, c))
        IN  /\ within_command_block = None <=> Indented(line, c) = CloseFence
            /\ (IsCloseFenceToken(line) /\ Indented(line, c) # CloseFence) =>
                   /\ within_command_block = Some(c)
                   /\ \/ /\ buffer_command = Append(before.buffer_command, stored)
                         /\ commands = before.commands
                      \/ /\ buffer_command = << >>
                         /\ commands = Append(before.commands,
                                              Append(before.buffer_command, stored))

\* a close fence one column to the right of the fence that opened the block:
\* it is a command, and the line after it is still a line of the block
FenceClosesAtItsColumnWitness ==
    /\ content = << LnOpen, LnCloseIn, LnA >>
    /\ line_no = 3
    /\ within_command_block = Some(0)
    /\ commands = << << Slice(2, LnCloseIn) >>, << Slice(3, << "a" >>) >> >>

(***************************************************************************)
(* C23.  After every line the parser is outside a block, in a block, or in  *)
(* a block and in a here-document; it starts outside.  It is never outside  *)
(* a block with a here-document still open.                                 *)
(***************************************************************************)
Outside == within_command_block = None /\ within_here_document_block = None
InBlock == within_command_block # None /\ within_here_document_block = None
InBlockHeredoc == within_command_block # None /\ within_here_document_block # None

HeredocOnlyInBlock ==
    /\ line_no = 0 => Outside
    /\ Outside \/ InBlock \/ InBlockHeredoc

(***************************************************************************)
(* C24.  The until test does not depend on skip_commands: when the line     *)
(* that completes a command discarded by skip_commands equals the until     *)
(* marker, the scan stops on that line and the parse succeeds, without the  *)
(* discarded command.                                                       *)
(***************************************************************************)
UntilFiresOnSkippedCommand ==
    /\ (line_no >= 1 /\ SkippedOnUntilLine(line_no)) =>
           /\ execute_until_found
           /\ \A c \in 1..Len(commands) :
                  \A k \in 1..Len(commands[c]) : commands[c][k].no # line_no
    /\ (Returned /\ \E i \in 1..Len(content) : SkippedOnUntilLine(i)) =>
           result[1].tag = "Ok"

(***************************************************************************)
(* C25.  skip_commands is applied to every command that is assembled, the   *)
(* here-document commands too: no command of the output, joined with single *)
(* spaces, matches the pattern.                                             *)
(***************************************************************************)
SkipsEveryMatchingCommand ==
    skip_commands # None =>
        \A c \in 1..Len(commands) :
            ~FoundIn(skip_commands[1], JoinedWithSpace(commands[c]))

(***************************************************************************)
(* C27.  The markers are compared with every line, whatever its kind.  If   *)
(* any line equals the from marker the parse does not fail with             *)
(* from-not-found; if any line at or after the from point equals the until  *)
(* marker the parse stops at the first such line and does not fail with     *)
(* until-not-found.                                                         *)
(***************************************************************************)
BoundariesOnEveryLine ==
    Returned =>
        /\ (execute_from # None /\ MatchedFrom(execute_from[1], 1)) =>
               result[1] # FromNotFound(execute_from[1])
        /\ ( /\ execute_until # None
             /\ execute_from # None => MatchedFrom(execute_from[1], 1)
             /\ MatchedFrom(execute_until[1], FromPoint) ) =>
               /\ execute_until_found
               /\ line_no = FirstMatchFrom(execute_until[1], FromPoint)
               /\ result[1].tag = "Ok"

(***************************************************************************)
(* C28.  Every command takes all its lines from one block: lines left in    *)
(* the buffer when the close fence of their block comes (after a trailing   *)
(* backslash, or in a here-document that is not ended) are never in one     *)
(* command with lines of a later block.                                     *)
(***************************************************************************)
\* the number of the block that line number no lies in: the number of the
\* open fences before it
BlockOf(no) == Cardinality({ i \in 1..no : HasOpenFence(content[i]) })

LinesOfOneBlock ==
    \A c \in 1..Len(commands) :
        \A k, l \in 1..Len(commands[c]) :
            BlockOf(commands[c][k].no) = BlockOf(commands[c][l].no)

(***************************************************************************)
(* C29.  No content line is lost: when parse returns with success, every    *)
(* line inside a shell block, between the from point and the until point,   *)
(* that is not part of a command discarded by skip_commands, is a line of   *)
(* exactly one command of the output; so too when the text ends with a      *)
(* here-document or a backslash continuation still open.                    *)
(***************************************************************************)
\* the line the parse stops at: the last line, or the first line at or after
\* the from point that equals the until marker
UntilPoint ==
    IF execute_until = None THEN Len(content)
    ELSE FirstMatchFrom(execute_until[1], FromPoint)

\* line i is a content line of a shell block
IsContentLine(i) ==
    /\ LocalsBefore(content, i, NoOptions).within_command_block # None
    /\ ~IsFenceOfBlock(i)

\* the places of the output that hold line i
PlacesOf(i) ==
    { p \in UNION { { << c, k >> : k \in 1..Len(result[1].commands[c]) } :
                       c \in 1..Len(result[1].commands) } :
        result[1].commands[p[1]][p[2]].no = i }

NoLineLost ==
    (ReturnedOk /\ skip_commands = None) =>
        \A i \in FromPoint..UntilPoint :
            IsContentLine(i) => Cardinality(PlacesOf(i)) = 1

(***************************************************************************)
(* C30.  The range selects whole commands: whenever the parse with          *)
(* execute_from and execute_until succeeds, its output is a run of          *)
(* consecutive commands of the output of the same text parsed with no       *)
(* marker; no command of it is a part of a command of several lines.        *)
(***************************************************************************)
\* the commands of the text parsed with neither marker
Unbounded ==
    Parse(content, [Options EXCEPT !.execute_from = None, !.execute_until = None])

\* sub is a run of consecutive elements of seq
IsRunOf(sub, seq) ==
    \E i \in 0..Len(seq) :
        /\ i + Len(sub) <= Len(seq)
        /\ SubSeq(seq, i + 1, i + Len(sub)) = sub

RangeSelectsWholeCommands ==
    ReturnedOk => IsRunOf(result[1].commands, Unbounded.commands)

(***************************************************************************)
(* C26.  The run of an interactive script of N commands, one answer to each *)
(* prompt.  The functions are called in the order of the commands.  A call  *)
(* prompts unless an earlier answer was A.  The answer S does not execute   *)
(* the command, and the script goes on: the next call prompts.  The answer  *)
(* X does not execute the command and ends the script with status 0: no     *)
(* later call is made.  The answer A executes the command and sets          *)
(* EXECUTE_ALL, which stays true: every later call executes its command     *)
(* without a prompt.  Any other answer executes the command and leaves the  *)
(* flag as it is.  The script ends before the last call only on the answer  *)
(* X or, under set -e, when a command fails.                                *)
(***************************************************************************)
Skip == { Some("s"), Some("S") }
Exit == { Some("x"), Some("X") }
All == { Some("a"), Some("A") }

\* the command of the call ended with a status other than 0
Failed(call) == call.executed /\ call.status # Some(0)

InteractiveAnswers ==
    (pc = "running" /\ execution_mode = Interactive /\ EXECUTE_ALL # None) =>
        LET N == Len(result[1].commands)
            n == Len(calls)
        IN  /\ n <= N
            /\ EXECUTE_ALL = Some("true") <=> \E l \in 1..n : calls[l].input \in All
            /\ EXECUTE_ALL \in { Some("true"), Some("false") }
            /\ \A j \in 1..n :
                   /\ calls[j].index = j - 1
                   \* a prompt, unless A was answered before
                   /\ calls[j].input = None <=> \E l \in 1..j - 1 : calls[l].input \in All
                   /\ calls[j].input \in Skip =>
                          /\ ~calls[j].executed
                          /\ (j = n /\ n < N) => script_status = None
                          /\ j < n => calls[j + 1].input # None
                   /\ calls[j].input \in Exit =>
                          /\ ~calls[j].executed
                          /\ j = n
                          /\ script_status = Some(0)
                   /\ calls[j].input \in All =>
                          /\ calls[j].executed
                          /\ \A l \in j + 1..n :
                                 calls[l].input = None /\ calls[l].executed
                   /\ calls[j].input \notin Skip \cup Exit => calls[j].executed
                   \* only X and a command that fails end the script early
                   /\ j < n => calls[j].input \notin Exit /\ ~Failed(calls[j])
            /\ script_status # None =>
                   \/ n = N /\ script_status = Some(0)
                   \/ n >= 1 /\ calls[n].input \in Exit /\ script_status = Some(0)
                   \/ n >= 1 /\ Failed(calls[n]) /\ script_status = calls[n].status

\* three commands: the first skipped, A at the second, the third executed
\* with no prompt, and the script has ended
InteractiveAnswersWitness ==
    /\ pc = "running"
    /\ Len(result[1].commands) = 3
    /\ Len(calls) = 3
    /\ calls[1] = [ index |-> 0, input |-> Some("S"), executed |-> FALSE, status |-> None ]
    /\ calls[2] = [ index |-> 1, input |-> Some("a"), executed |-> TRUE, status |-> Some(0) ]
    /\ calls[3] = [ index |-> 2, input |-> None, executed |-> TRUE, status |-> Some(0) ]
    /\ EXECUTE_ALL = Some("true")
    /\ script_status = Some(0)

====
